---- MODULE Spec2Model ----
(***************************************************************************)
(* Model of the outbound HTTP client of src/lib/utils/api.server.ts:       *)
(* the Api class (header building, body serialization, composite           *)
(* cancellation, response normalisation) and its verb methods.             *)
(***************************************************************************)
EXTENDS Integers, Sequences, FiniteSets, TLC

VARIABLES
    pc,          \* position of the current call: "idle", "fetching", "reading", "done"
    entry,       \* how the call was made: a verb method, or "request" with a full init
    mode,        \* ApiMode of the client instance the call was made on
    timer,       \* the call's timeout timer: "none", "pending", "fired", "cleared"
    ctrl,        \* the per-call AbortController: [aborted, reason]
    sig,         \* the caller-supplied AbortSignal: [present, aborted, reason]
    listener,    \* whether the once-listener on the caller signal is registered
    fetchArgs,   \* what was handed to fetch: method, body, headers, cache, signal
    callerHdrs,  \* the headers the caller supplied in init
    res,         \* the Response fetch resolved with
    parsed,      \* the parsed payload of the response
    readFailed,  \* whether reading or parsing the body failed
    result,      \* outcome of the call: [kind, env, thrown]
    abortedBy,   \* which source aborted the composite first: "none", "timer", "caller"
    abortPhase,  \* the pc at which the composite was first aborted ("call" = at call time)
    sBody,       \* serializer run: the body under serialization
    sUrl,        \* serializer run: result of serializeBody in urlencoded mode
    sForm,       \* serializer run: result of serializeBody in form mode
    mParsed,     \* message-extraction run: the parsed payload
    mRes,        \* message-extraction run: the failing Response
    mEnv,        \* message-extraction run: the envelope built
    lpc,         \* position of loginAction: "start", "awaitBackend", "awaitCookies", "done"
    lDev,        \* the dev flag of $app/environment
    lForm,       \* the submitted form: [readable, email, password]
    lBackend,    \* the request apiFormPost handed to fetch: [issued, url, method, headers, body]
    lHttp,       \* the response fetch resolved with: [received, status, ok, body]
    lRes,        \* what apiFormPost returned: [returned, success, message, data]
    lCookies,    \* the cookies written through event.cookies.set, in order
    lResult      \* what loginAction returned: [kind, status, message, issues]

vars == <<pc, entry, mode, timer, ctrl, sig, listener, fetchArgs, callerHdrs,
          res, parsed, readFailed, result, abortedBy, abortPhase,
          sBody, sUrl, sForm, mParsed, mRes, mEnv,
          lpc, lDev, lForm, lBackend, lHttp, lRes, lCookies, lResult>>

reqVars == <<pc, entry, mode, timer, ctrl, sig, listener, fetchArgs, callerHdrs,
             res, parsed, readFailed, result, abortedBy, abortPhase>>
serVars == <<sBody, sUrl, sForm>>
msgVars == <<mParsed, mRes, mEnv>>
loginVars == <<lpc, lDev, lForm, lBackend, lHttp, lRes, lCookies, lResult>>

-----------------------------------------------------------------------------
(* JavaScript values. Every value is a record of one shape: t is the       *)
(* runtime type, s the text of a scalar, ks/e the keys and values of an    *)
(* object's entries (e alone: the elements of an array).                   *)

JVal(t, s, ks, e) == [t |-> t, s |-> s, ks |-> ks, e |-> e]
JUndef == JVal("undefined", "", <<>>, <<>>)
JNull == JVal("null", "", <<>>, <<>>)
JStr(s) == JVal("string", s, <<>>, <<>>)
JNum(s) == JVal("number", s, <<>>, <<>>)
JBool(s) == JVal("boolean", s, <<>>, <<>>)
JBigInt(s) == JVal("bigint", s, <<>>, <<>>)
JArr(e) == JVal("array", "", <<>>, e)
JObj(ks, e) == JVal("object", "", ks, e)
JDate(iso) == JVal("date", iso, <<>>, <<>>)
JBlob == JVal("blob", "", <<>>, <<>>)
JFile(name) == JVal("file", name, <<>>, <<>>)
JUsp(text) == JVal("usp", text, <<>>, <<>>)
JFormData(id) == JVal("formdata", id, <<>>, <<>>)
\* An Error or DOMException: name and message are readable properties.
JErr(name, message) == JVal("error", "", <<"name", "message">>, <<JStr(name), JStr(message)>>)

\* typeof v === 'object'
TypeofObject(v) ==
    v.t \in {"null", "array", "object", "date", "blob", "file", "usp", "formdata", "error"}

\* typeof v === 'string'
TypeofString(v) == v.t = "string"

\* key in v, for an object v
HasKey(v, key) == \E i \in 1..Len(v.ks) : v.ks[i] = key

\* v.key (the caller has excluded null and undefined)
GetProp(v, key) ==
    IF HasKey(v, key)
    THEN v.e[CHOOSE i \in 1..Len(v.ks) : v.ks[i] = key]
    ELSE JUndef

\* the truthiness JavaScript's || and if test
Truthy(v) ==
    CASE v.t \in {"undefined", "null"} -> FALSE
      [] v.t = "string" -> v.s # ""
      [] v.t \in {"number", "bigint"} -> v.s # "0"
      [] v.t = "boolean" -> v.s = "true"
      [] OTHER -> TRUE

RECURSIVE JoinStr(_, _)
JoinStr(strs, sep) ==
    IF Len(strs) = 0 THEN ""
    ELSE IF Len(strs) = 1 THEN strs[1]
    ELSE strs[1] \o sep \o JoinStr(Tail(strs), sep)

RECURSIVE Concat(_)
Concat(seqs) == IF Len(seqs) = 0 THEN <<>> ELSE seqs[1] \o Concat(Tail(seqs))

\* String(v)
RECURSIVE ToStr(_)
ToStr(v) ==
    CASE v.t = "undefined" -> "undefined"
      [] v.t = "null" -> "null"
      [] v.t \in {"string", "number", "boolean", "bigint", "usp"} -> v.s
      [] v.t = "array" ->
            JoinStr([i \in 1..Len(v.e) |->
                        IF v.e[i].t \in {"undefined", "null"} THEN "" ELSE ToStr(v.e[i])], ",")
      [] v.t = "error" -> GetProp(v, "name").s \o ": " \o GetProp(v, "message").s
      [] v.t = "date" -> v.s
      [] v.t = "blob" -> "[object Blob]"
      [] v.t = "file" -> "[object File]"
      [] v.t = "formdata" -> "[object FormData]"
      [] OTHER -> "[object Object]"

\* whether JSON.stringify(v) throws (a BigInt anywhere in v)
RECURSIVE StringifyThrows(_)
StringifyThrows(v) ==
    \/ v.t = "bigint"
    \/ v.t \in {"array", "object"} /\ \E i \in 1..Len(v.e) : StringifyThrows(v.e[i])

\* JSON.stringify(v), for a v it does not throw on (undefined at the top is left to the caller)
RECURSIVE Stringify(_)
Stringify(v) ==
    CASE v.t \in {"undefined", "null"} -> "null"
      [] v.t \in {"string", "date"} -> "\"" \o v.s \o "\""
      [] v.t \in {"number", "boolean"} -> v.s
      [] v.t = "array" -> "[" \o JoinStr([i \in 1..Len(v.e) |-> Stringify(v.e[i])], ",") \o "]"
      [] v.t = "object" ->
            LET keep == SelectSeq([i \in 1..Len(v.e) |-> i], LAMBDA i : v.e[i].t # "undefined")
            IN "{" \o JoinStr([j \in 1..Len(keep) |->
                                 "\"" \o v.ks[keep[j]] \o "\":" \o Stringify(v.e[keep[j]])], ",")
                   \o "}"
      [] OTHER -> "{}"

-----------------------------------------------------------------------------
(* Header Builder.  Headers are functions from header name to value.       *)

EmptyHeaders == [x \in {} |-> ""]

\* { ...a, ...b }: the keys of b win
Spread(a, b) == b @@ a

\* Api.buildBaseHeaders
buildBaseHeaders(m) ==
    LET headers == "Accept" :> "application/json"
    IN IF m = "json" THEN Spread(headers, "Content-Type" :> "application/json")
       ELSE IF m = "urlencoded"
            THEN Spread(headers, "Content-Type" :> "application/x-www-form-urlencoded")
            ELSE headers

\* Api.buildHeaders; token is a string, "" when absent (an empty token is falsy too)
buildHeaders(m, token) ==
    LET headers == buildBaseHeaders(m)
    IN IF token # "" THEN Spread(headers, "Authorization" :> ("Bearer " \o token))
       ELSE headers

\* the own enumerable string-keyed properties `...fetchInit?.headers` copies:
\* those of a plain record; a Headers instance has none, and undefined gives none
SpreadableHeaders(hi) == IF hi.form = "record" THEN hi.h ELSE EmptyHeaders

\* the headers object of finalFetchInit
finalHeaders(m, token, hi) ==
    Spread(Spread(buildHeaders(m, token), SpreadableHeaders(hi)),
           "Cache-Control" :> "no-store, max-age=0")

-----------------------------------------------------------------------------
(* Body Serializer.  An appended field is [k, v, kind, filename].          *)

Field(k, v) == [k |-> k, v |-> v, kind |-> "string", filename |-> ""]

\* Object.entries(v) as a sequence of <<key, value>>
ObjectEntries(v) ==
    CASE v.t = "object" -> [i \in 1..Len(v.e) |-> <<v.ks[i], v.e[i]>>]
      [] v.t = "array" -> [i \in 1..Len(v.e) |-> <<ToString(i - 1), v.e[i]>>]
      [] v.t = "string" -> [i \in 1..Len(v.s) |-> <<ToString(i - 1), JStr(SubSeq(v.s, i, i))>>]
      [] OTHER -> <<>>

\* appendParam of serializeBody's urlencoded branch: the fields it appends
RECURSIVE appendParam(_, _)
appendParam(key, value) ==
    IF value.t \in {"undefined", "null"} THEN <<Field(key, "")>>
    ELSE IF value.t = "date" THEN <<Field(key, value.s)>>
    ELSE IF value.t = "array"
         THEN Concat([i \in 1..Len(value.e) |-> appendParam(key \o "[]", value.e[i])])
    ELSE IF TypeofObject(value)
         THEN LET es == ObjectEntries(value)
              IN Concat([i \in 1..Len(es) |->
                           appendParam(key \o "[" \o es[i][1] \o "]", es[i][2])])
    ELSE <<Field(key, ToStr(value))>>

\* the null branch of appendFD with the field dropped instead of emitted empty
appendFD_skipNull(key) == <<>>

\* appendFD's first branch: fd.append(key, '')
appendFD_null(key) == <<Field(key, "")>>

\* appendFD of serializeBody's multipart branch: the fields it appends
RECURSIVE appendFD(_, _)
appendFD(key, value) ==
    IF value.t \in {"undefined", "null"} THEN appendFD_null(key)
    ELSE IF value.t = "file"
         THEN <<[k |-> key, v |-> "", kind |-> "file",
                 filename |-> IF value.s # "" THEN value.s ELSE "file"]>>
    ELSE IF value.t = "blob"
         THEN <<[k |-> key, v |-> "", kind |-> "blob", filename |-> "blob"]>>
    ELSE IF value.t = "date" THEN <<Field(key, value.s)>>
    ELSE IF value.t = "array"
         THEN Concat([i \in 1..Len(value.e) |-> appendFD(key \o "[]", value.e[i])])
    ELSE IF TypeofObject(value)
         THEN LET es == ObjectEntries(value)
              IN Concat([i \in 1..Len(es) |->
                           appendFD(key \o "[" \o es[i][1] \o "]", es[i][2])])
    ELSE <<Field(key, ToStr(value))>>

\* the application/x-www-form-urlencoded byte serializer on the characters the model uses
EncodeChar(c) ==
    CASE c = "[" -> "%5B"
      [] c = "]" -> "%5D"
      [] c = " " -> "+"
      [] c = ":" -> "%3A"
      [] c = "@" -> "%40"
      [] c = "=" -> "%3D"
      [] c = "&" -> "%26"
      [] OTHER -> c

UrlEncode(str) == JoinStr([i \in 1..Len(str) |-> EncodeChar(SubSeq(str, i, i))], "")

\* URLSearchParams.prototype.toString
ParamsToString(fields) ==
    JoinStr([i \in 1..Len(fields) |-> UrlEncode(fields[i].k) \o "=" \o UrlEncode(fields[i].v)],
            "&")

Serialized(kind, text, fields) ==
    [threw |-> FALSE, error |-> JUndef, kind |-> kind, text |-> text, fields |-> fields]

\* Api.serializeBody: the BodyInit it returns, or the error it throws
serializeBody(m, body) ==
    IF body.t \in {"undefined", "null"} THEN Serialized("undefined", "", <<>>)
    ELSE IF m = "json"
         THEN IF StringifyThrows(body)
              THEN [threw |-> TRUE,
                    error |-> JErr("TypeError", "Do not know how to serialize a BigInt"),
                    kind |-> "undefined", text |-> "", fields |-> <<>>]
              ELSE Serialized("text", Stringify(body), <<>>)
    ELSE IF m = "urlencoded"
         THEN IF body.t = "usp" THEN Serialized("text", body.s, <<>>)
              ELSE LET es == ObjectEntries(body)
                       fields == Concat([i \in 1..Len(es) |-> appendParam(es[i][1], es[i][2])])
                   IN Serialized("text", ParamsToString(fields), fields)
    ELSE IF body.t = "formdata" THEN Serialized("formdata", body.s, <<>>)
         ELSE LET es == ObjectEntries(body)
              IN Serialized("formdata", "",
                            Concat([i \in 1..Len(es) |-> appendFD(es[i][1], es[i][2])]))

-----------------------------------------------------------------------------
(* Response Normalizer.                                                    *)

\* the cut of parsed.slice(0, 300)
MsgLimit == 300

\* the default timeout of the constructor
DefaultTimeoutMs == 30000

Upper == "ABCDEFGHIJKLMNOPQRSTUVWXYZ"
Lower == "abcdefghijklmnopqrstuvwxyz"

LowerChar(c) ==
    IF \E i \in 1..Len(Upper) : SubSeq(Upper, i, i) = c
    THEN LET i == CHOOSE j \in 1..Len(Upper) : SubSeq(Upper, j, j) = c IN SubSeq(Lower, i, i)
    ELSE c

\* String.prototype.toLowerCase
ToLowerCase(str) == JoinStr([i \in 1..Len(str) |-> LowerChar(SubSeq(str, i, i))], "")

\* String.prototype.includes
Includes(str, sub) ==
    \E i \in 1..(Len(str) - Len(sub) + 1) : SubSeq(str, i, i + Len(sub) - 1) = sub

\* whether the parse step takes the res.json() branch; contentType "" is an absent header
ParsesAsJson(contentType) == Includes(ToLowerCase(contentType), "application/json")

\* String.prototype.slice(0, n)
Slice0(str, n) == IF Len(str) <= n THEN str ELSE SubSeq(str, 1, n)

\* v?.key
OptProp(v, key) == IF v.t \in {"object", "error"} THEN GetProp(v, key) ELSE JUndef

NoError == [status |-> -1, message |-> JUndef, detail |-> JUndef, keys |-> {}]
NoEnv == [success |-> FALSE, keys |-> {}, data |-> JUndef, message |-> JUndef, error |-> NoError]

SuccessEnv(data, message) ==
    [success |-> TRUE, keys |-> {"success", "data", "message"}, data |-> data,
     message |-> message, error |-> NoError]

FailureEnv(error, message) ==
    [success |-> FALSE, keys |-> {"success", "error", "message"}, data |-> JUndef,
     message |-> message, error |-> error]

\* the envelope returned for status 204
NoContentEnv == SuccessEnv(JObj(<<>>, <<>>), JStr("No Content"))

\* the text one element of a detail array contributes to the joined message
DetailItemText(item) ==
    IF TypeofString(item) THEN item.s
    ELSE IF Truthy(OptProp(item, "msg")) THEN ToStr(OptProp(item, "msg"))
    ELSE Stringify(item)

\* the separator of the joined detail messages, as a comma
DetailSep_comma == ", "

\* the separator of the joined detail messages
DetailSep == "; "

\* the text-payload branch: parsed.slice(0, 300)
TextMessage(text) == Slice0(text, MsgLimit)

\* message and detail of the HTTP error branch
ErrorMessage(p, r) ==
    LET fallback == IF r.statusText # "" THEN JStr(r.statusText) ELSE JStr("Request failed")
    IN IF TypeofObject(p) /\ p.t # "null"
       THEN IF HasKey(p, "detail")
            THEN LET detail == GetProp(p, "detail")
                 IN [detail |-> detail,
                     message |->
                        IF detail.t = "array"
                        THEN JStr(JoinStr([i \in 1..Len(detail.e) |-> DetailItemText(detail.e[i])],
                                          DetailSep))
                        ELSE IF TypeofString(detail) THEN detail
                        ELSE IF TypeofObject(detail)
                             THEN IF Truthy(OptProp(detail, "msg")) THEN OptProp(detail, "msg")
                                  ELSE JStr(Stringify(detail))
                        ELSE fallback]
            ELSE IF HasKey(p, "message")
                 THEN [detail |-> JUndef, message |-> JStr(ToStr(GetProp(p, "message")))]
                 ELSE [detail |-> JUndef, message |-> fallback]
       ELSE IF TypeofString(p)
            THEN [detail |-> JUndef, message |-> JStr(TextMessage(p.s))]
            ELSE [detail |-> JUndef, message |-> fallback]

\* the envelope of the !res.ok branch
HttpErrorEnv(p, r) ==
    LET em == ErrorMessage(p, r)
    IN FailureEnv([status |-> r.status, message |-> em.message, detail |-> em.detail,
                   keys |-> {"status", "message", "detail"}],
                  em.message)

\* the envelope of the success branch
HttpSuccessEnv(p) ==
    SuccessEnv(p, IF Truthy(OptProp(p, "message")) THEN OptProp(p, "message") ELSE JStr("OK"))

\* what the inner catch leaves in parsed, as the empty string
ParseFailureValue_empty == JStr("")

\* what the inner catch leaves in parsed
ParseFailureValue == JNull

Returned(env) == [kind |-> "returned", env |-> env, thrown |-> JUndef]
Threw(e) == [kind |-> "threw", env |-> NoEnv, thrown |-> e]
NoResult == [kind |-> "none", env |-> NoEnv, thrown |-> JUndef]

\* everything after the parse step: the envelope for a received, parsed response
Normalize(p, r) == Returned(IF ~r.ok THEN HttpErrorEnv(p, r) ELSE HttpSuccessEnv(p))

\* the catch block's test with the name of a timeout error
IsAbortName_timeout(name) == name = JStr("TimeoutError")

\* the catch block's test err.name === 'AbortError'
IsAbortName(name) == name = JStr("AbortError")

\* the catch block of request: the envelope for a thrown e, or the TypeError
\* that reading a property of null or undefined throws out of the catch
CatchOutcome(e) ==
    IF e.t \in {"undefined", "null"}
    THEN Threw(JErr("TypeError", "Cannot read properties of " \o e.t \o " (reading 'name')"))
    ELSE LET message ==
                 IF IsAbortName(OptProp(e, "name")) THEN JStr("Request aborted")
                 ELSE IF Truthy(OptProp(e, "message")) THEN OptProp(e, "message")
                 ELSE JStr("Network error")
         IN Returned(FailureEnv([status |-> 0, message |-> message, detail |-> JUndef,
                                 keys |-> {"status", "message"}],
                                message))

-----------------------------------------------------------------------------
(* Cancellation Composer.                                                  *)

DefaultAbortError == JErr("AbortError", "This operation was aborted")

FreshController == [aborted |-> FALSE, reason |-> JUndef]

AbortWith(c, reason) ==
    [aborted |-> TRUE, reason |-> IF reason.t = "undefined" THEN DefaultAbortError ELSE reason]

\* an abort that replaces the reason of a controller that is already aborted
ControllerAbort_overwrite(c, reason) == AbortWith(c, reason)

\* AbortController.prototype.abort(reason): the first abort fixes the reason
ControllerAbort(c, reason) == IF c.aborted THEN c ELSE AbortWith(c, reason)

\* the timer left pending by the finally block
Finally_leak(t) == t

\* the finally block: if (timeoutId) clearTimeout(timeoutId)
Finally(t) == IF t = "pending" THEN "cleared" ELSE t

\* whether request schedules the timer: timeoutMs && timeoutMs > 0
SchedulesTimer(tmo) ==
    LET timeoutMs == IF tmo.given THEN tmo.ms ELSE DefaultTimeoutMs
    IN timeoutMs # 0 /\ timeoutMs > 0

\* the option object handed to fetch: which source each option comes from
\* { method, body, ...{ ...fetchInit, cache, headers }, signal: controller.signal }
FetchOptions(fetchInit) ==
    Spread(Spread(("method" :> "argument") @@ ("body" :> "serialized"),
                  Spread(Spread(fetchInit, "cache" :> "no-store"), "headers" :> "merged")),
           "signal" :> "composite")

-----------------------------------------------------------------------------
(* The inputs the calls are drawn from.                                    *)

\* characters a plain-text error body has beyond the cut of the message
MaxExtra == 1

\* apiJson, apiForm, apiUrlEncoded
Modes == {"json", "form", "urlencoded"}

Verbs == {"get", "post", "put", "patch", "delete", "deleteWithBody"}

\* the HttpMethod each verb hands to request
MethodOf(verb) ==
    CASE verb = "get" -> "GET"
      [] verb = "post" -> "POST"
      [] verb = "put" -> "PUT"
      [] verb = "patch" -> "PATCH"
      [] OTHER -> "DELETE"

\* whether the verb hands its body argument to request
PassesBody(verb) == verb \in {"post", "put", "patch", "deleteWithBody"}

Tokens == {"", "tok"}

NoHeaders == [form |-> "none", h |-> EmptyHeaders]

HeaderInputs ==
    { NoHeaders,
      [form |-> "record", h |-> "X-Trace" :> "1"],
      [form |-> "record",
       h |-> ("Accept" :> "text/html") @@ ("Content-Type" :> "text/plain")
                @@ ("Authorization" :> "Basic abc") @@ ("Cache-Control" :> "max-age=3600")],
      [form |-> "Headers", h |-> "X-Trace" :> "1"] }

NoTimeout == [given |-> FALSE, ms |-> 0]

TimeoutInputs == { NoTimeout, [given |-> TRUE, ms |-> 0], [given |-> TRUE, ms |-> 5] }

\* the values a caller aborts its signal with (undefined: abort() without a reason)
AbortReasons ==
    { JUndef,
      JErr("TimeoutError", "The operation was aborted due to timeout"),
      JStr("stop"),
      JObj(<<"code">>, <<JNum("1")>>),
      JNull }

NoSignal == [present |-> FALSE, aborted |-> FALSE, reason |-> JUndef]
LiveSignal == [present |-> TRUE, aborted |-> FALSE, reason |-> JUndef]

\* AbortSignal.abort(reason) and AbortController.abort(reason) on the caller's side
SignalAbort(reason) ==
    [present |-> TRUE, aborted |-> TRUE,
     reason |-> IF reason.t = "undefined" THEN DefaultAbortError ELSE reason]

SignalInputs == {NoSignal, LiveSignal} \cup {SignalAbort(r) : r \in AbortReasons}

CallBodies ==
    { JUndef,
      JObj(<<"a", "n">>, <<JObj(<<"b">>, <<JNum("1")>>), JNull>>),
      JObj(<<"id">>, <<JBigInt("7")>>) }

RECURSIVE Rep(_, _)
Rep(c, n) ==
    IF n = 0 THEN ""
    ELSE LET half == Rep(c, n \div 2)
         IN IF n % 2 = 0 THEN half \o half ELSE half \o half \o c

Statuses == {200, 204, 422}

PhraseOf(status) ==
    CASE status = 200 -> "OK"
      [] status = 204 -> "No Content"
      [] OTHER -> "Unprocessable Entity"

ContentTypes == {"Application/JSON; charset=utf-8", "text/plain"}

JsonPayloads ==
    { JNull,
      JObj(<<"message">>, <<JStr("hello")>>),
      JObj(<<"detail">>, <<JArr(<<JObj(<<"msg">>, <<JStr("bad field")>>), JStr("other")>>)>>),
      JObj(<<"detail">>, <<JObj(<<"msg">>, <<JNum("42")>>)>>) }

TextPayloads == { JStr(""), JStr("oops"), JStr(Rep("x", MsgLimit + MaxExtra)) }

NetworkErrors == { JErr("TypeError", "fetch failed") }

NoRes == [received |-> FALSE, status |-> 0, ok |-> FALSE, statusText |-> "", contentType |-> ""]

NotInvoked ==
    [invoked |-> FALSE, method |-> "", body |-> Serialized("undefined", "", <<>>),
     headers |-> EmptyHeaders, opts |-> EmptyHeaders, signalAborted |-> FALSE]

-----------------------------------------------------------------------------
(* Api.request as a state machine.  A step is what runs to completion      *)
(* between two waits on the transport: the call up to the pending fetch,   *)
(* the continuation after fetch settles, the continuation after the body   *)
(* read settles.                                                           *)

ReqInit ==
    /\ pc = "idle"
    /\ entry = "none"
    /\ mode = "json"
    /\ timer = "none"
    /\ ctrl = FreshController
    /\ sig = NoSignal
    /\ listener = FALSE
    /\ fetchArgs = NotInvoked
    /\ callerHdrs = NoHeaders
    /\ res = NoRes
    /\ parsed = JUndef
    /\ readFailed = "no"
    /\ result = NoResult
    /\ abortedBy = "none"
    /\ abortPhase = "none"

NotRun == [threw |-> FALSE, error |-> JUndef, kind |-> "notrun", text |-> "", fields |-> <<>>]

SerIdle == sBody = JUndef /\ sUrl = NotRun /\ sForm = NotRun

MsgIdle == /\ mParsed = JUndef /\ mRes = NoRes /\ mEnv = NoEnv

NoForm == [readable |-> FALSE, email |-> JUndef, password |-> JUndef]
NoBackendCall ==
    [issued |-> FALSE, url |-> "", method |-> "", headers |-> EmptyHeaders, body |-> ""]
NoApiResponse == [returned |-> FALSE, success |-> FALSE, message |-> JUndef, data |-> JUndef]
NoHttp == [received |-> FALSE, status |-> 0, ok |-> FALSE, body |-> JUndef]
NoIssues == [f \in {} |-> <<>>]
NoLoginResult == [kind |-> "none", status |-> 0, message |-> JUndef, issues |-> NoIssues]

LoginIdle ==
    /\ lpc = "start"
    /\ lDev = FALSE
    /\ lForm = NoForm
    /\ lBackend = NoBackendCall
    /\ lHttp = NoHttp
    /\ lRes = NoApiResponse
    /\ lCookies = <<>>
    /\ lResult = NoLoginResult

Init == ReqInit /\ SerIdle /\ MsgIdle /\ LoginIdle

\* the call leaves request: result, the finally block, and the position
Complete(out, t) ==
    /\ result' = out
    /\ timer' = Finally(t)
    /\ pc' = "done"

\* Api.request from its first line to the pending fetch (or to its return when
\* serialization throws or the composite is aborted before fetch is invoked)
Call(e, m, method, body, token, hi, tmo, s) ==
    LET ctrl1 == IF s.present /\ s.aborted
                 THEN ControllerAbort(FreshController, s.reason)
                 ELSE FreshController
        t1 == IF SchedulesTimer(tmo) THEN "pending" ELSE "none"
        ser == serializeBody(m, body)
        fetchInit == (IF s.present THEN "signal" :> "caller" ELSE EmptyHeaders)
                        @@ (IF hi.form # "none" THEN "headers" :> "caller" ELSE EmptyHeaders)
                        @@ (IF tmo.given THEN "timeoutMs" :> "caller" ELSE EmptyHeaders)
    IN /\ pc = "idle"
       /\ entry' = e
       /\ mode' = m
       /\ sig' = s
       /\ callerHdrs' = hi
       /\ ctrl' = ctrl1
       /\ listener' = (s.present /\ ~s.aborted)
       /\ abortedBy' = IF ctrl1.aborted THEN "caller" ELSE "none"
       /\ abortPhase' = IF ctrl1.aborted THEN "call" ELSE "none"
       /\ res' = NoRes
       /\ parsed' = JUndef
       /\ readFailed' = "no"
       /\ IF ser.threw
          THEN /\ fetchArgs' = NotInvoked
               /\ Complete(CatchOutcome(ser.error), t1)
          ELSE /\ fetchArgs' = [invoked |-> TRUE, method |-> method, body |-> ser,
                                headers |-> finalHeaders(m, token, hi),
                                opts |-> FetchOptions(fetchInit),
                                signalAborted |-> ctrl1.aborted]
               /\ IF ctrl1.aborted
                  THEN Complete(CatchOutcome(ctrl1.reason), t1)
                  ELSE /\ pc' = "fetching"
                       /\ timer' = t1
                       /\ result' = NoResult
       /\ UNCHANGED <<serVars, msgVars, loginVars>>

\* get, post, put, patch, delete, deleteWithBody: request with { token } alone
VerbCall(verb, m, body, token) ==
    Call(verb, m, MethodOf(verb), IF PassesBody(verb) THEN body ELSE JUndef, token,
         NoHeaders, NoTimeout, NoSignal)

\* request with a full init: headers, timeoutMs, signal, token
RequestCall(m, body, token, hi, tmo, s) ==
    Call("request", m, "POST", body, token, hi, tmo, s)

\* the composite has just been aborted (c2 is the controller after the abort):
\* a pending fetch rejects with its reason, a pending body read is interrupted
AbortEffect(c2, t) ==
    IF pc = "fetching"
    THEN /\ Complete(CatchOutcome(c2.reason), t)
         /\ UNCHANGED <<parsed, readFailed>>
    ELSE IF pc = "reading"
    THEN /\ parsed' = ParseFailureValue
         /\ readFailed' = "interrupted"
         /\ Complete(Normalize(ParseFailureValue, res), t)
    ELSE /\ timer' = t
         /\ UNCHANGED <<pc, result, parsed, readFailed>>

\* the timeout callback: () => controller.abort()
TimerFire ==
    /\ timer = "pending"
    /\ ctrl' = ControllerAbort(ctrl, JUndef)
    /\ abortedBy' = IF ctrl.aborted THEN abortedBy ELSE "timer"
    /\ abortPhase' = IF ctrl.aborted THEN abortPhase ELSE pc
    /\ AbortEffect(ControllerAbort(ctrl, JUndef), "fired")
    /\ UNCHANGED <<entry, mode, sig, listener, fetchArgs, callerHdrs, res>>
    /\ UNCHANGED <<serVars, msgVars, loginVars>>

\* the caller aborts its signal; the once-listener, if registered, runs
\* () => controller.abort(sig.reason)
CallerAbort(reason) ==
    LET s2 == SignalAbort(reason)
        c2 == IF listener THEN ControllerAbort(ctrl, s2.reason) ELSE ctrl
    IN /\ sig.present /\ ~sig.aborted
       /\ sig' = s2
       /\ listener' = FALSE
       /\ ctrl' = c2
       /\ abortedBy' = IF listener /\ ~ctrl.aborted THEN "caller" ELSE abortedBy
       /\ abortPhase' = IF listener /\ ~ctrl.aborted THEN pc ELSE abortPhase
       /\ IF listener /\ ~ctrl.aborted
          THEN AbortEffect(c2, timer)
          ELSE UNCHANGED <<pc, result, parsed, readFailed, timer>>
       /\ UNCHANGED <<entry, mode, fetchArgs, callerHdrs, res>>
       /\ UNCHANGED <<serVars, msgVars, loginVars>>

\* the 204 test left out, so that a 204 response is read and parsed like any other
IsNoContent_never(status) == FALSE

\* the test of the 204 handling: res.status === 204
IsNoContent(status) == status = 204

\* fetch resolves with a Response; the 204 check returns at once
Respond(status, statusText, contentType) ==
    /\ pc = "fetching"
    /\ res' = [received |-> TRUE, status |-> status, ok |-> status \in 200..299,
               statusText |-> statusText, contentType |-> contentType]
    /\ IF IsNoContent(status)
       THEN Complete(Returned(NoContentEnv), timer)
       ELSE /\ pc' = "reading"
            /\ UNCHANGED <<timer, result>>
    /\ UNCHANGED <<entry, mode, ctrl, sig, listener, fetchArgs, callerHdrs,
                   parsed, readFailed, abortedBy, abortPhase>>
    /\ UNCHANGED <<serVars, msgVars, loginVars>>

\* fetch rejects without a response
NetworkFail(e) ==
    /\ pc = "fetching"
    /\ Complete(CatchOutcome(e), timer)
    /\ UNCHANGED <<entry, mode, ctrl, sig, listener, fetchArgs, callerHdrs,
                   res, parsed, readFailed, abortedBy, abortPhase>>
    /\ UNCHANGED <<serVars, msgVars, loginVars>>

\* res.json() or res.text() settles: with a payload, or with a failure the
\* inner catch absorbs
BodyRead(failure, payload) ==
    LET p == IF failure = "no" THEN payload ELSE ParseFailureValue
    IN /\ pc = "reading"
       /\ IF ParsesAsJson(res.contentType)
          THEN /\ failure \in {"no", "malformed", "readError"}
               /\ failure = "no" => payload \in JsonPayloads
          ELSE /\ failure \in {"no", "readError"}
               /\ failure = "no" => payload \in TextPayloads
       /\ failure # "no" => payload = JUndef
       /\ parsed' = p
       /\ readFailed' = failure
       /\ Complete(Normalize(p, res), timer)
       /\ UNCHANGED <<entry, mode, ctrl, sig, listener, fetchArgs, callerHdrs,
                      res, abortedBy, abortPhase>>
       /\ UNCHANGED <<serVars, msgVars, loginVars>>

\* the caller has its outcome; the call-scoped controller, timer handle,
\* response and envelope are dropped and the client is ready for the next call
Discard ==
    /\ pc = "done"
    /\ pc' = "idle"
    /\ entry' = "none"
    /\ mode' = "json"
    /\ timer' = "none"
    /\ ctrl' = FreshController
    /\ sig' = NoSignal
    /\ listener' = FALSE
    /\ fetchArgs' = NotInvoked
    /\ callerHdrs' = NoHeaders
    /\ res' = NoRes
    /\ parsed' = JUndef
    /\ readFailed' = "no"
    /\ result' = NoResult
    /\ abortedBy' = "none"
    /\ abortPhase' = "none"
    /\ UNCHANGED <<serVars, msgVars, loginVars>>

Next ==
    \/ \E verb \in Verbs, m \in Modes, body \in CallBodies, token \in Tokens :
          VerbCall(verb, m, body, token)
    \/ \E m \in Modes, body \in CallBodies, token \in Tokens, hi \in HeaderInputs,
          tmo \in TimeoutInputs, s \in SignalInputs :
          RequestCall(m, body, token, hi, tmo, s)
    \/ TimerFire
    \/ \E reason \in AbortReasons : CallerAbort(reason)
    \/ \E status \in Statuses, contentType \in ContentTypes :
          \E statusText \in {"", PhraseOf(status)} :
             Respond(status, statusText, contentType)
    \/ \E e \in NetworkErrors : NetworkFail(e)
    \/ \E failure \in {"no", "malformed", "readError"},
          payload \in JsonPayloads \cup TextPayloads \cup {JUndef} :
          BodyRead(failure, payload)
    \/ Discard

Spec == Init /\ [][Next]_vars

-----------------------------------------------------------------------------
(* serializeBody on its own: one body, serialized by the urlencoded client *)
(* and by the form client.                                                 *)

\* longest array inside a body under serialization
MaxArrLen == 2

ScalarLeaves == { JStr("x y"), JNum("1"), JNum("2"), JNull }

SerLeaves ==
    ScalarLeaves \cup { JUndef, JBool("false"), JDate("2024-01-02T03:04:05.000Z"),
                        JBlob, JFile("a.png"), JFile("") }

SeqsUpTo(S, n) == UNION { [1..k -> S] : k \in 0..n }

SerValues ==
    SerLeaves
      \cup { JArr(e) : e \in SeqsUpTo(ScalarLeaves, MaxArrLen) }
      \cup { JObj(<<"b">>, <<v>>) : v \in SerLeaves }
      \cup { JObj(<<"b", "d">>, <<JArr(<<v>>), JObj(<<"e">>, <<v>>)>>) : v \in ScalarLeaves }
      \cup { JArr(<<JObj(<<"b">>, <<v>>), JArr(<<v>>)>>) : v \in ScalarLeaves }

SerBodies ==
    { JObj(<<"a", "c">>, <<v, w>>) :
         v \in SerValues, w \in {JNull, JArr(<<JNum("1"), JNum("2")>>)} }
      \cup { JUndef, JNull, JObj(<<>>, <<>>), JArr(<<JNum("1"), JNull>>), JStr("ab"),
             JUsp("a=1"), JFormData("fd1") }

SerInit ==
    /\ ReqInit
    /\ MsgIdle
    /\ LoginIdle
    /\ sBody \in SerBodies
    /\ sUrl = NotRun
    /\ sForm = NotRun

\* apiUrlEncoded serializes the body
SerializeUrlencoded ==
    /\ sUrl = NotRun
    /\ sUrl' = serializeBody("urlencoded", sBody)
    /\ UNCHANGED <<sBody, sForm, reqVars, msgVars, loginVars>>

\* apiForm serializes the body
SerializeForm ==
    /\ sForm = NotRun
    /\ sForm' = serializeBody("form", sBody)
    /\ UNCHANGED <<sBody, sUrl, reqVars, msgVars, loginVars>>

SerNext == SerializeUrlencoded \/ SerializeForm

SpecSer == SerInit /\ [][SerNext]_vars

-----------------------------------------------------------------------------
(* The HTTP error branch on its own: one failing response, one payload.    *)

\* longest detail array of an error payload
MaxDetailLen == 2

DetailItems ==
    { JStr("other"), JObj(<<"msg">>, <<JStr("bad field")>>), JObj(<<"msg">>, <<JStr("")>>),
      JObj(<<"loc">>, <<JStr("body")>>), JObj(<<"msg">>, <<JNum("42")>>), JNum("5"), JNull }

Details ==
    { JStr(""), JStr("bad"), JNum("5"), JBool("true"), JNull }
      \cup { d \in DetailItems : d.t = "object" }
      \cup { JArr(e) : e \in SeqsUpTo(DetailItems, MaxDetailLen) }

MessageFields == { JStr("hello"), JStr(""), JNum("7"), JNull }

MsgPayloads ==
    { JObj(<<"detail">>, <<d>>) : d \in Details }
      \cup { JObj(<<"message", "detail">>, <<JStr("hello"), d>>) :
                d \in {JStr("bad"), JNum("5"), JArr(<<>>)} }
      \cup { JObj(<<"message">>, <<x>>) : x \in MessageFields }
      \cup { JObj(<<>>, <<>>), JArr(<<JStr("a")>>), JNull, JNum("5") }
      \cup TextPayloads \cup { JStr(Rep("y", MsgLimit)) }

FailingResponses ==
    { [received |-> TRUE, status |-> st, ok |-> FALSE, statusText |-> tx, contentType |-> ""] :
         st \in {422, 500}, tx \in {"", "Unprocessable Entity"} }

MsgInit ==
    /\ ReqInit
    /\ SerIdle
    /\ LoginIdle
    /\ mParsed \in MsgPayloads
    /\ mRes \in FailingResponses
    /\ mEnv = NoEnv

\* the !res.ok branch builds the envelope for the parsed payload
ExtractMessage ==
    /\ mEnv = NoEnv
    /\ mEnv' = HttpErrorEnv(mParsed, mRes)
    /\ UNCHANGED <<mParsed, mRes, reqVars, serVars, loginVars>>

MsgNext == ExtractMessage

SpecMsg == MsgInit /\ [][MsgNext]_vars

-----------------------------------------------------------------------------
(* loginAction: schema validation, the form-encoded POST of apiFormPost,   *)
(* the cookie writes of setCookieServer.  A step is what runs to           *)
(* completion between two awaits.                                          *)

\* LoginSchema.username: z.string().email(...), on the addresses the model uses
IsEmail(str) ==
    \E i \in 2..Len(str) :
        /\ SubSeq(str, i, i) = "@"
        /\ \A j \in 1..Len(str) : SubSeq(str, j, j) = "@" => j = i
        /\ \A j \in 1..Len(str) : SubSeq(str, j, j) # " "
        /\ \E j \in (i + 2)..(Len(str) - 1) : SubSeq(str, j, j) = "."

\* the issue z.string() raises for a value that is not a string
InvalidTypeMessage(v) ==
    "Expected string, received " \o (IF v.t = "null" THEN "null" ELSE "object")

Issue(path, message) == [path |-> path, message |-> message]

\* LoginSchema.safeParse(rawData): the issues in field order, none on success
safeParse(rawData) ==
    LET u == rawData.username
        pw == rawData.password
        uIssues == IF u.t # "string" THEN <<Issue("username", InvalidTypeMessage(u))>>
                   ELSE IF ~IsEmail(u.s) THEN <<Issue("username", "Invalid email address")>>
                   ELSE <<>>
        pIssues == IF pw.t # "string" THEN <<Issue("password", InvalidTypeMessage(pw))>>
                   ELSE IF Len(pw.s) < 1 THEN <<Issue("password", "Password is required")>>
                   ELSE <<>>
        all == uIssues \o pIssues
    IN [success |-> all = <<>>, issues |-> all, data |-> rawData]

\* the loop that groups the messages of result.error.issues by their first path element
CollectIssues(issues) ==
    LET paths == { issues[i].path : i \in 1..Len(issues) } \ {""}
        OfPath(path) == SelectSeq(issues, LAMBDA is : is.path = path)
    IN [path \in paths |-> [i \in 1..Len(OfPath(path)) |-> OfPath(path)[i].message]]

\* fail(status, { success: false, ... })
Fail(status, message, issues) ==
    [kind |-> "fail", status |-> status, message |-> message, issues |-> issues]

LoginSuccess == [kind |-> "success", status |-> 200, message |-> JUndef, issues |-> NoIssues]
LoginThrew == [kind |-> "threw", status |-> 0, message |-> JUndef, issues |-> NoIssues]

API_URL == "https://api.test"

\* apiFormPost up to its await on fetch: the request it hands to fetch
FormPostRequest(endpoint, body) ==
    LET es == ObjectEntries(body)
        formData == [i \in 1..Len(es) |-> Field(es[i][1], ToStr(es[i][2]))]
    IN [issued |-> TRUE,
        url |-> API_URL \o endpoint,
        method |-> "POST",
        headers |-> ("Content-Type" :> "application/x-www-form-urlencoded"),
        body |-> ParamsToString(formData)]

ApiFailure(message) ==
    [returned |-> TRUE, success |-> FALSE, message |-> message, data |-> JUndef]
ApiSuccess(data) ==
    [returned |-> TRUE, success |-> TRUE, message |-> JUndef, data |-> data]

\* a response body that JSON.parse rejects
Unparseable == JVal("unparseable", "", <<>>, <<>>)

\* apiFormPost's catch block
FormPostCaught(error) ==
    ApiFailure(IF error.t = "error" THEN GetProp(error, "message")
               ELSE JStr("An unknown error occurred"))

\* apiFormPost from response.json() to its return
FormPostSettle(response) ==
    IF response.body = Unparseable
    THEN FormPostCaught(JErr("SyntaxError", "Unexpected token < in JSON at position 0"))
    ELSE LET data == response.body
         IN IF ~response.ok
            THEN IF data.t = "null"
                 THEN FormPostCaught(
                        JErr("TypeError", "Cannot read properties of null (reading 'message')"))
                 ELSE ApiFailure(IF Truthy(GetProp(data, "message"))
                                 THEN GetProp(data, "message")
                                 ELSE JStr("HTTP error! status: " \o ToString(response.status)))
            ELSE ApiSuccess(data)

\* DEFAULT_COOKIE_OPTIONS
DEFAULT_COOKIE_OPTIONS(dev) ==
    [httpOnly |-> TRUE, secure |-> ~dev, sameSite |-> "lax", path |-> "/",
     maxAge |-> 60 * 60 * 24 * 1]

NoCookieOptions == [o \in {} |-> ""]

\* setCookieServer: the cookie jar after event.cookies.set(name, value, finalOptions)
setCookieServer(cookies, dev, name, value, options) ==
    LET finalOptions ==
            Spread(Spread(DEFAULT_COOKIE_OPTIONS(dev), options),
                   [path |-> IF "path" \in DOMAIN options THEN options.path
                             ELSE DEFAULT_COOKIE_OPTIONS(dev).path])
    IN Append(cookies, [name |-> name, value |-> value, options |-> finalOptions])

\* the gate with the user left unchecked
CookieGate_tokenOnly(token, user) == Truthy(token)

\* if (token && user)
CookieGate(token, user) == Truthy(token) /\ Truthy(user)

\* the three writes inside Promise.all's array, in evaluation order
WriteCookies(cookies, dev, token, user) ==
    LET c1 == setCookieServer(cookies, dev, "fs_at", token, NoCookieOptions)
        c2 == setCookieServer(c1, dev, "fs_current_udata", JStr(Stringify(user)),
                              NoCookieOptions)
    IN setCookieServer(c2, dev, "fs_user_role", GetProp(user, "role"), NoCookieOptions)

LoginForms ==
    [readable : {TRUE},
     email : {JNull, JStr(""), JStr("bob"), JStr("a@b"), JStr("a@b.co"), JStr("c@d.io")},
     password : {JNull, JStr(""), JStr("pw"), JStr("p w")}]
      \cup {NoForm}

User(role) == JObj(<<"id", "role">>, <<JNum("7"), JStr(role)>>)

LoginPayloads ==
    { JObj(<<"access_token", "user">>, <<JStr("t1"), User("admin")>>),
      JObj(<<"access_token", "user">>, <<JStr("t1"), JObj(<<"id">>, <<JNum("7")>>)>>),
      JObj(<<"access_token", "user">>, <<JStr("t1"), JNull>>),
      JObj(<<"access_token", "user">>, <<JStr(""), User("admin")>>),
      JObj(<<"access_token">>, <<JStr("t1")>>),
      JObj(<<"user">>, <<User("staff")>>),
      JObj(<<"message">>, <<JStr("Invalid credentials")>>),
      JObj(<<"detail">>, <<JStr("x")>>),
      JNull,
      Unparseable }

LoginStatuses == {200, 401}

LoginInit ==
    /\ ReqInit
    /\ SerIdle
    /\ MsgIdle
    /\ lpc = "start"
    /\ lDev \in BOOLEAN
    /\ lForm = NoForm
    /\ lBackend = NoBackendCall
    /\ lHttp = NoHttp
    /\ lRes = NoApiResponse
    /\ lCookies = <<>>
    /\ lResult = NoLoginResult

\* loginAction from its entry to its first return or to apiFormPost's pending fetch
Submit(form) ==
    /\ lpc = "start"
    /\ lForm' = form
    /\ IF ~form.readable
       THEN /\ lResult' = LoginThrew
            /\ lBackend' = lBackend
            /\ lpc' = "done"
       ELSE LET rawData == [username |-> form.email, password |-> form.password]
                validation == safeParse(rawData)
                body == JObj(<<"username", "password">>,
                             <<validation.data.username, validation.data.password>>)
            IN IF ~validation.success
               THEN /\ lResult' = Fail(400, JUndef, CollectIssues(validation.issues))
                    /\ lBackend' = lBackend
                    /\ lpc' = "done"
               ELSE /\ lBackend' = FormPostRequest("/auth/login", body)
                    /\ lResult' = lResult
                    /\ lpc' = "awaitFetch"
    /\ UNCHANGED <<lDev, lHttp, lRes, lCookies, reqVars, serVars, msgVars>>

\* loginAction after apiFormPost returned
AfterPost(apiRes) ==
    IF ~apiRes.success
    THEN /\ lResult' = Fail(401, IF Truthy(apiRes.message) THEN apiRes.message
                                 ELSE JStr("Login failed"), NoIssues)
         /\ lCookies' = lCookies
         /\ lpc' = "done"
    ELSE LET token == OptProp(apiRes.data, "access_token")
             user == OptProp(apiRes.data, "user")
         IN IF CookieGate(token, user)
            THEN /\ lCookies' = WriteCookies(lCookies, lDev, token, user)
                 /\ lResult' = lResult
                 /\ lpc' = "awaitCookies"
            ELSE /\ lResult' = Fail(401, JStr("Invalid response from server"), NoIssues)
                 /\ lCookies' = lCookies
                 /\ lpc' = "done"

\* fetch rejects: apiFormPost's catch, then loginAction's failure return
FetchReject(error) ==
    /\ lpc = "awaitFetch"
    /\ lRes' = FormPostCaught(error)
    /\ AfterPost(lRes')
    /\ UNCHANGED <<lDev, lForm, lBackend, lHttp, reqVars, serVars, msgVars>>

\* fetch resolves with a response: apiFormPost waits on response.json()
FetchRespond(status, payload) ==
    /\ lpc = "awaitFetch"
    /\ lHttp' = [received |-> TRUE, status |-> status,
                 ok |-> status >= 200 /\ status <= 299, body |-> payload]
    /\ lpc' = "awaitJson"
    /\ UNCHANGED <<lDev, lForm, lBackend, lRes, lCookies, lResult, reqVars, serVars, msgVars>>

\* response.json() settles: apiFormPost returns and loginAction runs to its next await
JsonSettle ==
    /\ lpc = "awaitJson"
    /\ lRes' = FormPostSettle(lHttp)
    /\ AfterPost(lRes')
    /\ UNCHANGED <<lDev, lForm, lBackend, lHttp, reqVars, serVars, msgVars>>

\* Promise.all settles: return { success: true }
LoginReturn ==
    /\ lpc = "awaitCookies"
    /\ lResult' = LoginSuccess
    /\ lpc' = "done"
    /\ UNCHANGED <<lDev, lForm, lBackend, lHttp, lRes, lCookies, reqVars, serVars, msgVars>>

LoginNext ==
    \/ \E form \in LoginForms : Submit(form)
    \/ \E error \in NetworkErrors : FetchReject(error)
    \/ \E status \in LoginStatuses : \E payload \in LoginPayloads : FetchRespond(status, payload)
    \/ JsonSettle
    \/ LoginReturn

SpecLogin == LoginInit /\ [][LoginNext]_vars

-----------------------------------------------------------------------------
(* The claims.                                                             *)

Env == result.env
AbortedEnvelope ==
    /\ result.kind = "returned"
    /\ ~Env.success
    /\ Env.error.status = 0
    /\ Env.error.message = JStr("Request aborted")
    /\ Env.message = JStr("Request aborted")

\* C1: every call that has completed has returned an envelope; none has let
\* an error escape, whatever the transport rejected with.
NoCallEscapes == pc = "done" => result.kind = "returned"

\* C2: a call whose timer fired while fetch was still pending (no response
\* received) ends in the failure envelope with status 0 and message
\* "Request aborted".
TimeoutYieldsAborted ==
    (pc = "done" /\ timer = "fired" /\ ~res.received) => AbortedEnvelope

\* C2 witness: a call with a caller signal that was never aborted, timed out
\* before any response.
TimeoutWitness ==
    /\ pc = "done" /\ timer = "fired" /\ ~res.received
    /\ abortedBy = "timer" /\ abortPhase = "fetching"
    /\ AbortedEnvelope

\* C3: a call cancelled through the caller's signal before a response was
\* received, and that returned an envelope, returned the status-0 envelope
\* with the cancellation message "Request aborted", whatever the reason.
CallerCancelIsAborted ==
    (pc = "done" /\ abortedBy = "caller" /\ ~res.received /\ result.kind = "returned")
        => AbortedEnvelope

\* C4: once the call has completed, on any path, its timer is not pending.
TimerReleased == pc \in {"idle", "done"} => timer # "pending"

\* C4 witness: a call that scheduled its timer with a caller signal already
\* aborted at call time has completed, and the timer was cleared.
TimerReleasedWitness ==
    /\ pc = "done" /\ timer = "cleared"
    /\ abortedBy = "caller" /\ abortPhase = "call"
    /\ result.kind = "returned"

CompositeState ==
    /\ fetchArgs.invoked => fetchArgs.opts["signal"] = "composite"
    /\ (fetchArgs.invoked /\ abortPhase = "call") => fetchArgs.signalAborted
    /\ abortPhase = "call" => abortedBy = "caller"
    /\ abortedBy = "caller" => ctrl.aborted /\ ctrl.reason = sig.reason
    /\ abortedBy = "timer" => ctrl.aborted /\ ctrl.reason = DefaultAbortError
    /\ abortedBy = "none" => ~ctrl.aborted

\* C5: fetch is handed the composite signal alone; a caller signal aborted at
\* call time aborts the composite with the caller's reason before fetch is
\* invoked; the source that fires first fixes the reason (caller: the caller's
\* reason, timer: the default abort error), and within a call no later abort
\* changes it.
FirstAbortWins ==
    /\ []CompositeState
    /\ [][(ctrl.aborted /\ pc' # "idle") => ctrl' = ctrl]_vars

\* C5 witness: the timer fired first, the caller aborted afterwards with a
\* reason of its own, and the composite still carries the timer's reason.
FirstAbortWinsWitness ==
    /\ abortedBy = "timer"
    /\ sig.aborted /\ sig.reason # DefaultAbortError
    /\ ctrl.reason = DefaultAbortError

\* C6: a returned envelope has data and no error when success is true; when
\* success is false it has no data and an error with an integer status and a
\* string message, and its top-level message equals error.message.
EnvelopeInvariant ==
    result.kind = "returned" =>
        /\ Env.success => "data" \in Env.keys /\ "error" \notin Env.keys
        /\ ~Env.success =>
              /\ "error" \in Env.keys /\ "data" \notin Env.keys
              /\ Env.error.status \in Int
              /\ Env.error.message.t = "string"
              /\ Env.message = Env.error.message

StatusPhrase == IF res.statusText # "" THEN JStr(res.statusText) ELSE JStr("Request failed")

\* C7: when a non-204 response was received and reading or parsing its body
\* failed, the call returned an envelope: for a success status, success with
\* data null and message "OK"; for a failure status, failure with the
\* response's own status and the status phrase or "Request failed".
ParseFailureAbsorbed ==
    (pc = "done" /\ res.received /\ res.status # 204 /\ readFailed # "no") =>
        /\ result.kind = "returned"
        /\ res.ok => /\ Env.success
                     /\ Env.data = JNull
                     /\ Env.message = JStr("OK")
        /\ ~res.ok => /\ ~Env.success
                      /\ Env.error.status = res.status
                      /\ Env.error.status # 0
                      /\ Env.error.message = StatusPhrase
                      /\ Env.message = StatusPhrase

\* C7 witness: the body read of a success response was interrupted by the
\* timeout, and the call returned success with null data.
ParseFailureWitness ==
    /\ pc = "done" /\ res.received /\ res.ok /\ res.status # 204
    /\ readFailed = "interrupted" /\ abortedBy = "timer"
    /\ result.kind = "returned" /\ Env.success /\ Env.data = JNull

\* whether an element or detail object has a msg field
PresentMsg(v) == v.t = "object" /\ HasKey(v, "msg")

\* whether an element or detail object has a msg field that is truthy
TruthyMsg(v) == PresentMsg(v) /\ Truthy(GetProp(v, "msg"))

\* the message precedence as the claim states it; UsesMsg says when an
\* object's msg field is the one used
PrecedenceMessage(p, r, UsesMsg(_)) ==
    LET phrase == IF r.statusText # "" THEN JStr(r.statusText) ELSE JStr("Request failed")
        itemText(item) ==
            IF item.t = "string" THEN item.s
            ELSE IF UsesMsg(item) THEN ToStr(GetProp(item, "msg"))
            ELSE Stringify(item)
    IN IF p.t \in {"object", "array"} /\ HasKey(p, "detail")
       THEN LET d == GetProp(p, "detail")
            IN CASE d.t = "array" ->
                       JStr(JoinStr([i \in 1..Len(d.e) |-> itemText(d.e[i])], "; "))
                 [] d.t = "string" -> d
                 [] d.t \in {"object", "null"} ->
                       IF UsesMsg(d) THEN GetProp(d, "msg") ELSE JStr(Stringify(d))
                 [] OTHER -> phrase
       ELSE IF p.t \in {"object", "array"} /\ HasKey(p, "message")
            THEN JStr(ToStr(GetProp(p, "message")))
       ELSE IF p.t = "string"
            THEN JStr(IF Len(p.s) > 300 THEN SubSeq(p.s, 1, 300) ELSE p.s)
       ELSE phrase

ExampleDetail ==
    JObj(<<"detail">>, <<JArr(<<JObj(<<"msg">>, <<JStr("bad field")>>), JStr("other")>>)>>)

MessageFollows(UsesMsg(_)) ==
    mEnv # NoEnv =>
        /\ mEnv.message = PrecedenceMessage(mParsed, mRes, UsesMsg)
        /\ mEnv.error.message = mEnv.message
        /\ mParsed = ExampleDetail => mEnv.message = JStr("bad field; other")
        /\ (mParsed.t = "string" /\ Len(mParsed.s) > 300) => Len(mEnv.message.s) = 300

\* C8 as stated: the message of a failing response follows the precedence
\* detail (array joined with "; ", string, object), message, text cut at 300,
\* status phrase, where an object's msg is used whenever it is present.
MessagePrecedenceAsStated == MessageFollows(PresentMsg)

\* C8 as amended: the same precedence, where an object's msg is used only
\* when it is truthy (an empty msg gives the serialized form), and a detail
\* that is a number or boolean leaves the status phrase.
MessagePrecedence == MessageFollows(TruthyMsg)

\* C8 witness: the payload { detail: [{ msg: "bad field" }, "other"] } has
\* been turned into the message "bad field; other".
MessagePrecedenceWitness ==
    /\ mParsed = ExampleDetail
    /\ mEnv # NoEnv
    /\ mEnv.message = JStr("bad field; other")

\* C9: the headers handed to fetch carry the forced Cache-Control, every
\* other header the caller supplied with the caller's value, and a
\* Content-Type the caller did not supply only in json and urlencoded mode.
HeaderPrecedence ==
    fetchArgs.invoked =>
        LET h == fetchArgs.headers
            c == callerHdrs.h
        IN /\ "Cache-Control" \in DOMAIN h
           /\ h["Cache-Control"] = "no-store, max-age=0"
           /\ \A k \in DOMAIN c \ {"Cache-Control"} : k \in DOMAIN h /\ h[k] = c[k]
           /\ "Content-Type" \notin DOMAIN c =>
                 ("Content-Type" \in DOMAIN h <=> mode \in {"json", "urlencoded"})

\* whether v holds no binary or pre-encoded value
RECURSIVE PlainValue(_)
PlainValue(v) ==
    /\ v.t \notin {"blob", "file", "usp", "formdata"}
    /\ \A i \in 1..Len(v.e) : PlainValue(v.e[i])

ExampleBody ==
    JObj(<<"a", "c">>, <<JObj(<<"b">>, <<JNum("1")>>), JArr(<<JNum("1"), JNum("2")>>)>>)

\* C10: for a body without binary values, urlencoded and form serialization
\* append the same fields in the same order, all of them text; a top-level
\* null or undefined property is appended as its key with an empty value in
\* both; { a: { b: 1 }, c: [1,2] } gives a[b]=1, c[]=1, c[]=2.
SameFlattening ==
    (sUrl # NotRun /\ sForm # NotRun /\ PlainValue(sBody)) =>
        /\ sUrl.fields = sForm.fields
        /\ \A i \in 1..Len(sForm.fields) : sForm.fields[i].kind = "string"
        /\ sBody.t = "object" =>
              \A i \in 1..Len(sBody.e) :
                 sBody.e[i].t \in {"null", "undefined"} =>
                    /\ \E j \in 1..Len(sUrl.fields) : sUrl.fields[j] = Field(sBody.ks[i], "")
                    /\ \E j \in 1..Len(sForm.fields) : sForm.fields[j] = Field(sBody.ks[i], "")
        /\ sBody = ExampleBody =>
              /\ sForm.fields = <<Field("a[b]", "1"), Field("c[]", "1"), Field("c[]", "2")>>
              /\ sUrl.text = "a%5Bb%5D=1&c%5B%5D=1&c%5B%5D=2"

\* C10 witness: { a: [1, null], c: null } has been serialized in both modes
\* to a[]=1, a[]=, c=.
SameFlatteningWitness ==
    /\ sBody = JObj(<<"a", "c">>, <<JArr(<<JNum("1"), JNull>>), JNull>>)
    /\ sUrl # NotRun
    /\ sForm.fields = <<Field("a[]", "1"), Field("a[]", ""), Field("c", "")>>
    /\ sUrl.fields = sForm.fields

\* C11: a call that received a 204 response returned exactly
\* { success: true, data: {}, message: "No Content" }, whatever the content
\* type; the call never waits on the body of a 204 response, and at its
\* return no payload has been read or parsed.
NoContentExact ==
    /\ (pc = "reading") => res.status # 204
    /\ (pc = "done" /\ res.received /\ res.status = 204) =>
          /\ result.kind = "returned"
          /\ Env.success
          /\ Env.keys = {"success", "data", "message"}
          /\ Env.data = JObj(<<>>, <<>>)
          /\ Env.message = JStr("No Content")
          /\ parsed = JUndef
          /\ readFailed = "no"

\* C11 witness: a 204 response that declared a JSON content type and an
\* empty status phrase has been answered with the No Content envelope.
NoContentWitness ==
    /\ pc = "done" /\ res.received /\ res.status = 204
    /\ ParsesAsJson(res.contentType) /\ res.statusText = ""
    /\ result.kind = "returned" /\ Env.success
    /\ Env.data = JObj(<<>>, <<>>) /\ Env.message = JStr("No Content")
    /\ parsed = JUndef

\* the submitted credentials satisfy the login schema
ValidCredentials ==
    /\ lForm.readable
    /\ lForm.email.t = "string"
    /\ IsEmail(lForm.email.s)
    /\ lForm.password.t = "string"
    /\ lForm.password.s # ""

CookieNames == [i \in 1..Len(lCookies) |-> lCookies[i].name]
SessionCookies == <<"fs_at", "fs_current_udata", "fs_user_role">>

\* the backend reported success and its payload carries a token and a user
BackendGrantedSession ==
    /\ lRes.returned
    /\ lRes.success
    /\ lHttp.received
    /\ lHttp.ok
    /\ lRes.data = lHttp.body
    /\ lRes.data.t = "object"
    /\ Truthy(GetProp(lRes.data, "access_token"))
    /\ Truthy(GetProp(lRes.data, "user"))

\* C12: loginAction's steps are ordered and gated.  The POST to /auth/login
\* has been issued only for credentials that passed the schema; a validation
\* failure returned fail(400) with per-field issues and no backend call.  Any
\* cookie has been written only after the backend call reported success with
\* both an access_token and a user, and then fs_at, fs_current_udata and
\* fs_user_role are all written, before { success: true } is returned.  Every
\* other return is a failure result with no cookie written.
LoginOrderedAndGated ==
    /\ lBackend.issued =>
          /\ ValidCredentials
          /\ lBackend.method = "POST"
          /\ lBackend.url = API_URL \o "/auth/login"
    /\ (lpc # "start" /\ lForm.readable /\ ~ValidCredentials) =>
          /\ lpc = "done"
          /\ lResult.kind = "fail"
          /\ lResult.status = 400
          /\ DOMAIN lResult.issues # {}
          /\ DOMAIN lResult.issues \subseteq {"username", "password"}
          /\ \A f \in DOMAIN lResult.issues : Len(lResult.issues[f]) > 0
          /\ ("username" \in DOMAIN lResult.issues) =
                ~(lForm.email.t = "string" /\ IsEmail(lForm.email.s))
          /\ ("password" \in DOMAIN lResult.issues) =
                ~(lForm.password.t = "string" /\ lForm.password.s # "")
          /\ ~lBackend.issued
          /\ lCookies = <<>>
    /\ (lResult.kind = "fail" /\ lResult.status = 400) => ~ValidCredentials
    /\ lHttp.received => lBackend.issued
    /\ lRes.returned => lBackend.issued
    /\ lCookies # <<>> =>
          /\ BackendGrantedSession
          /\ CookieNames = SessionCookies
          /\ lCookies[1].value = GetProp(lRes.data, "access_token")
          /\ lpc \in {"awaitCookies", "done"}
    /\ lResult.kind = "success" =>
          /\ lpc = "done"
          /\ CookieNames = SessionCookies
    /\ (lpc = "done" /\ lForm.readable) =>
          /\ lResult.kind \in {"success", "fail"}
          /\ (lResult.kind = "success") = BackendGrantedSession
          /\ lResult.kind = "fail" =>
                /\ lCookies = <<>>
                /\ lResult.status \in {400, 401}
    /\ (lpc = "done" /\ ~lForm.readable) =>
          /\ lResult.kind = "threw"
          /\ ~lBackend.issued
          /\ lCookies = <<>>
LoginOrderedAndGatedWitness == lpc = "done" /\ lResult.kind = "success" /\ ValidCredentials /\ lBackend.issued /\ lBackend.body = "username=a%40b.co&password=p+w" /\ BackendGrantedSession /\ CookieNames = SessionCookies /\ lCookies[3].value = JStr("admin") /\ lCookies[2].value = JStr("{\"id\":7,\"role\":\"admin\"}")

====
